---- MODULE Spec2Model ----
(***************************************************************************)
(* The CPU random-fill kernels of aten/src/ATen/native/cpu/                *)
(* DistributionTemplates.h as a state machine.                             *)
(*                                                                         *)
(* A fill call is a thread that walks the statements of its kernel:        *)
(* every std::lock_guard construction, every invocation of the per-element *)
(* function by cpu_serial_kernel, every uniform draw of the block normal   *)
(* fills, every 16-element Box-Muller transform, every failed check and    *)
(* the end of the lock_guard's scope is one step.  The generator is a      *)
(* mutex and a stream of raw draws; a drawn value is identified by its     *)
(* position in the stream, so samples are symbolic except where a claim    *)
(* needs their arithmetic (bounded integers, Bernoulli).                   *)
(***************************************************************************)
EXTENDS Integers, Sequences, FiniteSets, TLC

\* ------------------------------------------------------------------ bounds
\* outputs of the per-element kernels have 0..MaxSmall elements
MaxSmall == 2
\* outputs of normal_kernel have 0..MaxSmall or 15..MaxNumel elements
MaxNumel == 33
\* a generator has served 0..MaxSeed draws before the calls start
MaxSeed == 2
\* random_from_to_kernel is called with range in 1..MaxRange
MaxRange == 3
\* probabilities and unit-interval draws are multiples of 1/ProbScale
ProbScale == 2

\* ------------------------------------------------------- program constants
\* the block of the normal fills: "i += 16", "size - 16", irange(16)
BlockSize == 16
\* irange(8) of normal_fill_16; the lane count normal_fill_16_vectorize needs
HalfBlock == 8

Threads == {1, 2}
Gens == {1, 2}
\* the generator a caller gets when it passes none
DefaultGen == 1

\* ------------------------------------------------------------ element types
AllTypes == {"Byte", "Char", "Double", "Float", "Int", "Long", "Short"}
FloatingTypes == {"Double", "Float"}
\* c10::isFloatingType
isFloatingType(d) == d \in {"Double", "Float", "Half", "BFloat16"}
\* the element types a tensor of the model can have
DTypes == AllTypes \cup {"Half", "BFloat16", "Bool", "ComplexFloat"}

\* ------------------------------------------------------------------ values
\* An output element is <<tag, a, b>>: "init" before the call, "u" a raw
\* uniform draw (a: its place in the generator's stream), "cos"/"sin" a
\* Box-Muller result of the uniforms a and b, "bad" a Box-Muller result of
\* something that was not a pair of uniforms; any other tag names the sampler
\* that produced the element, a being its integer result (bounded integers,
\* Bernoulli) or the draw it was computed from.
Elem(tag, a, b) == <<tag, a, b>>
InitElem == Elem("init", 0, 0)

Abs(x) == IF x < 0 THEN -x ELSE x

RECURSIVE Pow2(_)
Pow2(n) == IF n = 0 THEN 1 ELSE 2 * Pow2(n - 1)

\* the spacing of the floating values with m = 2^precision around a >= 0
RECURSIVE Ulp(_, _)
Ulp(a, m) == IF a < m THEN 1 ELSE 2 * Ulp(a \div 2, m)

\* the integer x converted to a binary floating type of `bits` significand
\* bits, round to nearest, ties to even
RoundToFloat(x, bits) ==
  LET a == Abs(x)
      u == Ulp(a, Pow2(bits))
      q == a \div u
      r == a % u
      n == IF 2 * r < u THEN q
           ELSE IF 2 * r > u THEN q + 1
           ELSE IF q % 2 = 0 THEN q ELSE q + 1
  IN  IF x < 0 THEN -(n * u) ELSE n * u

\* the integer x wrapped to a two's complement type of `bits` bits
WrapSigned(x, bits) == ((x + Pow2(bits - 1)) % Pow2(bits)) - Pow2(bits - 1)

\* static_cast<scalar_t>(int64_t x).  Int, Long and Double hold every integer
\* of the model exactly.
Narrow(d, x) ==
  CASE d = "Byte" -> x % Pow2(8)
    [] d = "Char" -> WrapSigned(x, 8)
    [] d = "Short" -> WrapSigned(x, 16)
    [] d = "Bool" -> IF x # 0 THEN 1 ELSE 0
    [] d = "Half" -> RoundToFloat(x, 11)
    [] d = "BFloat16" -> RoundToFloat(x, 8)
    [] d = "Float" -> RoundToFloat(x, 24)
    [] OTHER -> x

Representable(d, x) == Narrow(d, x) = x

\* --------------------------------------------------------------- the calls
\* kernel: the fill function called; dtype, numel, contiguous: the output;
\* gen: the generator passed; vecsize: Vectorized<float>::size() of the build;
\* range, base: of random_from_to_kernel; p: the scalar probability (in
\* 1/ProbScale); pdtype, pvals: the probability tensor before broadcast;
\* bad: the element at which the per-element function raises an error, or -1;
\* genok: whether the optional generator argument resolves to a generator
\* of the RNG type.
BaseCall ==
  [kernel |-> "idle", dtype |-> "Float", numel |-> 0, contiguous |-> TRUE,
   gen |-> DefaultGen, vecsize |-> HalfBlock, range |-> 1, base |-> 0, p |-> 0,
   pdtype |-> "Float", pvals |-> <<0>>, bad |-> -1, genok |-> TRUE]

Idle == BaseCall

\* ------------------------------------------------------------ instructions
\* One step of a call.  op: "lock" (a lock_guard is constructed on the mutex
\* of gen), "unlock" (its scope ends), "sample" (cpu_serial_kernel invokes the
\* per-element function for element idx), "uniform" (data[idx] = uniform(gen)),
\* "fill16" (a 16-element transform at data + idx), "throw" (a check fails),
\* "resolve" (check_generator returns the generator), "expand" (the
\* probability tensor is moved to the CPU and broadcast to the output).
\* fn: the function whose statement it is.  dist: the sampler, or the
\* transform routine.
Ins(op, fn, gen, idx, dist) ==
  [op |-> op, fn |-> fn, gen |-> gen, idx |-> idx, dist |-> dist]

\* mutant: generator->mutex_.lock() by hand, and no unlock()
end_scope_missing(fn, c) == <<>>

\* std::lock_guard<std::mutex> lock(generator->mutex_);
lock_guard(fn, c) == <<Ins("lock", fn, c.gen, 0, "")>>
\* the closing brace of the block that declared the lock_guard
end_scope(fn, c) == <<Ins("unlock", fn, c.gen, 0, "")>>
\* TORCH_CHECK(false, ...), and the dispatch macros' default: branch
torch_check_fail(fn) == <<Ins("throw", fn, DefaultGen, 0, "")>>

\* cpu_serial_kernel(iter, f): f once per output position, in order; an error
\* raised by f at element c.bad ends the iteration there.
cpu_serial_kernel(fn, c, dist) ==
  LET stop == IF c.bad >= 0 /\ c.bad < c.numel THEN c.bad + 1 ELSE c.numel
  IN  [k \in 1..stop |->
         IF k - 1 = c.bad THEN Ins("throw", fn, c.gen, k - 1, dist)
         ELSE Ins("sample", fn, c.gen, k - 1, dist)]

\* ------------------------------------------------------------- the kernels
\* mutant: the sampler of random_kernel, which ignores range and base
random_from_to_kernel_wrong_sampler(c) ==
  IF c.dtype \in AllTypes \cup {"Bool", "Half", "BFloat16"}
  THEN lock_guard("random_from_to_kernel", c)
       \o cpu_serial_kernel("random_from_to_kernel", c, "uniform_int")
       \o end_scope("random_from_to_kernel", c)
  ELSE torch_check_fail("random_from_to_kernel")

random_from_to_kernel(c) ==
  IF c.dtype \in AllTypes \cup {"Bool", "Half", "BFloat16"}
  THEN lock_guard("random_from_to_kernel", c)
       \o cpu_serial_kernel("random_from_to_kernel", c, "uniform_int_from_to")
       \o end_scope("random_from_to_kernel", c)
  ELSE torch_check_fail("random_from_to_kernel")

\* mutant: the lock taken before the dispatch, as random_kernel does
random_full_64_bits_range_kernel_lock_first(c) ==
  lock_guard("random_full_64_bits_range_kernel", c)
  \o (IF c.dtype \in {"Long", "Double", "Float", "BFloat16"}
      THEN cpu_serial_kernel("random_full_64_bits_range_kernel", c,
                             "uniform_int_full_range")
      ELSE torch_check_fail("random_full_64_bits_range_kernel"))
  \o end_scope("random_full_64_bits_range_kernel", c)

random_full_64_bits_range_kernel(c) ==
  IF c.dtype \in AllTypes \cup {"BFloat16"}
  THEN IF c.dtype \in {"Long", "Double", "Float", "BFloat16"}
       THEN lock_guard("random_full_64_bits_range_kernel", c)
            \o cpu_serial_kernel("random_full_64_bits_range_kernel", c,
                                 "uniform_int_full_range")
            \o end_scope("random_full_64_bits_range_kernel", c)
       ELSE torch_check_fail("random_full_64_bits_range_kernel")
  ELSE torch_check_fail("random_full_64_bits_range_kernel")

\* mutant: no lock_guard
random_kernel_no_lock(c) ==
  IF c.dtype \in AllTypes \cup {"Half", "BFloat16", "Bool"}
  THEN cpu_serial_kernel("random_kernel", c, "uniform_int")
  ELSE torch_check_fail("random_kernel")

random_kernel(c) ==
  lock_guard("random_kernel", c)
  \o (IF c.dtype \in AllTypes \cup {"Half", "BFloat16", "Bool"}
      THEN cpu_serial_kernel("random_kernel", c, "uniform_int")
      ELSE torch_check_fail("random_kernel"))
  \o end_scope("random_kernel", c)

\* mutant: the draws come from the default generator, not the one passed
uniform_pass_default_generator(fn, c, at, n) ==
  [k \in 1..n |-> Ins("uniform", fn, DefaultGen, at + k - 1, "uniform_real")]

\* for (const auto i : c10::irange(n)) data[at + i] = uniform(generator);
uniform_pass(fn, c, at, n) ==
  [k \in 1..n |-> Ins("uniform", fn, c.gen, at + k - 1, "uniform_real")]

\* for (int64_t i = from; i < size - 15; i += 16) <transform>(data + i)
RECURSIVE block_loop(_, _, _, _)
block_loop(fn, c, i, routine) ==
  IF i < c.numel - (BlockSize - 1)
  THEN <<Ins("fill16", fn, c.gen, i, routine)>>
       \o block_loop(fn, c, i + BlockSize, routine)
  ELSE <<>>

\* mutant: only the size % 16 elements past the last full block are redrawn
tail_recompute_remainder_only(fn, c, routine) ==
  IF c.numel % BlockSize # 0
  THEN uniform_pass(fn, c, c.numel - (c.numel % BlockSize), c.numel % BlockSize)
       \o <<Ins("fill16", fn, c.gen, c.numel - BlockSize, routine)>>
  ELSE <<>>

\* mutant: the last 16 values are transformed again without being redrawn
tail_recompute_no_redraw(fn, c, routine) ==
  IF c.numel % BlockSize # 0
  THEN <<Ins("fill16", fn, c.gen, c.numel - BlockSize, routine)>>
  ELSE <<>>

\* if (size % 16 != 0) { redraw and transform the last 16 values }
tail_recompute(fn, c, routine) ==
  IF c.numel % BlockSize # 0
  THEN uniform_pass(fn, c, c.numel - BlockSize, BlockSize)
       \o <<Ins("fill16", fn, c.gen, c.numel - BlockSize, routine)>>
  ELSE <<>>

\* if (Vec::size() == 8) normal_fill_16_vectorize else normal_fill_16
vec_routine(c) ==
  IF c.vecsize = HalfBlock THEN "normal_fill_16_vectorize" ELSE "normal_fill_16"

\* mutant: one lock_guard for the uniform pass, a second for the transforms
normal_fill_vectorize_two_guards(c) ==
  lock_guard("normal_fill_vectorize", c)
  \o uniform_pass("normal_fill_vectorize", c, 0, c.numel)
  \o end_scope("normal_fill_vectorize", c)
  \o lock_guard("normal_fill_vectorize", c)
  \o block_loop("normal_fill_vectorize", c, 0, vec_routine(c))
  \o tail_recompute("normal_fill_vectorize", c, vec_routine(c))
  \o end_scope("normal_fill_vectorize", c)

normal_fill_vectorize(c) ==
  lock_guard("normal_fill_vectorize", c)
  \o uniform_pass("normal_fill_vectorize", c, 0, c.numel)
  \o block_loop("normal_fill_vectorize", c, 0, vec_routine(c))
  \o tail_recompute("normal_fill_vectorize", c, vec_routine(c))
  \o end_scope("normal_fill_vectorize", c)

\* mutant: each block is drawn just before it is transformed
RECURSIVE draw_and_fill_loop(_, _)
draw_and_fill_loop(c, i) ==
  IF i < c.numel - (BlockSize - 1)
  THEN uniform_pass("normal_fill", c, i, BlockSize)
       \o <<Ins("fill16", "normal_fill", c.gen, i, "normal_fill_16")>>
       \o draw_and_fill_loop(c, i + BlockSize)
  ELSE <<>>

normal_fill_draw_per_block(c) ==
  lock_guard("normal_fill", c)
  \o draw_and_fill_loop(c, 0)
  \o tail_recompute("normal_fill", c, "normal_fill_16")
  \o end_scope("normal_fill", c)

\* mutant: no tail step
normal_fill_no_tail(c) ==
  lock_guard("normal_fill", c)
  \o uniform_pass("normal_fill", c, 0, c.numel)
  \o block_loop("normal_fill", c, 0, "normal_fill_16")
  \o end_scope("normal_fill", c)

normal_fill(c) ==
  lock_guard("normal_fill", c)
  \o uniform_pass("normal_fill", c, 0, c.numel)
  \o block_loop("normal_fill", c, 0, "normal_fill_16")
  \o tail_recompute("normal_fill", c, "normal_fill_16")
  \o end_scope("normal_fill", c)

\* mutant: the block fills are entered from 15 elements on
normal_kernel_from_15(c) ==
  IF c.dtype = "Float" /\ c.numel >= BlockSize - 1 /\ c.contiguous
  THEN normal_fill_vectorize(c)
  ELSE IF c.dtype \in FloatingTypes \cup {"Half", "BFloat16"}
       THEN IF c.numel >= BlockSize - 1 /\ c.contiguous
            THEN normal_fill(c)
            ELSE lock_guard("normal_kernel", c)
                 \o cpu_serial_kernel("normal_kernel", c, "normal")
                 \o end_scope("normal_kernel", c)
       ELSE torch_check_fail("normal_kernel")

\* mutant: normal_kernel holds a lock_guard of its own around the block fills
normal_kernel_outer_guard(c) ==
  IF c.dtype = "Float" /\ c.numel >= BlockSize /\ c.contiguous
  THEN lock_guard("normal_kernel", c)
       \o normal_fill_vectorize(c)
       \o end_scope("normal_kernel", c)
  ELSE IF c.dtype \in FloatingTypes \cup {"Half", "BFloat16"}
       THEN lock_guard("normal_kernel", c)
            \o (IF c.numel >= BlockSize /\ c.contiguous
                THEN normal_fill(c)
                ELSE cpu_serial_kernel("normal_kernel", c, "normal"))
            \o end_scope("normal_kernel", c)
       ELSE torch_check_fail("normal_kernel")

\* mutant: the scalar branch does not ask for a contiguous output
normal_kernel_no_contiguity_check(c) ==
  IF c.dtype = "Float" /\ c.numel >= BlockSize /\ c.contiguous
  THEN normal_fill_vectorize(c)
  ELSE IF c.dtype \in FloatingTypes \cup {"Half", "BFloat16"}
       THEN IF c.numel >= BlockSize
            THEN normal_fill(c)
            ELSE lock_guard("normal_kernel", c)
                 \o cpu_serial_kernel("normal_kernel", c, "normal")
                 \o end_scope("normal_kernel", c)
       ELSE torch_check_fail("normal_kernel")

normal_kernel(c) ==
  IF c.dtype = "Float" /\ c.numel >= BlockSize /\ c.contiguous
  THEN normal_fill_vectorize(c)
  ELSE IF c.dtype \in FloatingTypes \cup {"Half", "BFloat16"}
       THEN IF c.numel >= BlockSize /\ c.contiguous
            THEN normal_fill(c)
            ELSE lock_guard("normal_kernel", c)
                 \o cpu_serial_kernel("normal_kernel", c, "normal")
                 \o end_scope("normal_kernel", c)
       ELSE torch_check_fail("normal_kernel")

\* uniform, cauchy, log_normal: dispatch on the floating types, lock, sample
floating_kernel(fn, c, dist) ==
  IF c.dtype \in FloatingTypes \cup {"Half", "BFloat16"}
  THEN lock_guard(fn, c) \o cpu_serial_kernel(fn, c, dist) \o end_scope(fn, c)
  ELSE torch_check_fail(fn)

uniform_kernel(c) == floating_kernel("uniform_kernel", c, "uniform_real")
cauchy_kernel(c) == floating_kernel("cauchy_kernel", c, "cauchy")
log_normal_kernel(c) == floating_kernel("log_normal_kernel", c, "lognormal")

geometric_kernel(c) ==
  IF c.dtype \in AllTypes \cup {"Half", "BFloat16"}
  THEN lock_guard("geometric_kernel", c)
       \o cpu_serial_kernel("geometric_kernel", c, "geometric")
       \o end_scope("geometric_kernel", c)
  ELSE torch_check_fail("geometric_kernel")

\* mutant: geometric_kernel's body, no floating-point check
exponential_kernel_all_types(c) ==
  IF c.dtype \in AllTypes \cup {"Half", "BFloat16"}
  THEN lock_guard("exponential_kernel", c)
       \o cpu_serial_kernel("exponential_kernel", c, "exponential")
       \o end_scope("exponential_kernel", c)
  ELSE torch_check_fail("exponential_kernel")

exponential_kernel(c) ==
  IF ~isFloatingType(c.dtype)
  THEN torch_check_fail("exponential_kernel")
  ELSE IF c.dtype \in FloatingTypes \cup {"Half", "BFloat16"}
       THEN lock_guard("exponential_kernel", c)
            \o cpu_serial_kernel("exponential_kernel", c, "exponential")
            \o end_scope("exponential_kernel", c)
       ELSE torch_check_fail("exponential_kernel")

\* auto p_cpu = p_.to(kCPU); auto p = expand_inplace(self, p_cpu);
expand_inplace(fn, c) == <<Ins("expand", fn, c.gen, 0, "")>>

\* mutant: the probabilities are moved and broadcast before the lock_guard
bernoulli_tensor_kernel_expand_first(c) ==
  IF c.dtype \in AllTypes \cup {"Bool", "BFloat16", "Half"}
  THEN expand_inplace("bernoulli_tensor_kernel", c)
       \o lock_guard("bernoulli_tensor_kernel", c)
       \o (IF c.pdtype = "Double"
           THEN cpu_serial_kernel("bernoulli_tensor_kernel", c, "bernoulli_double")
           ELSE IF c.pdtype \in FloatingTypes \cup {"BFloat16", "Half"}
                THEN cpu_serial_kernel("bernoulli_tensor_kernel", c,
                                       "bernoulli_float")
                ELSE torch_check_fail("bernoulli_tensor_kernel"))
       \o end_scope("bernoulli_tensor_kernel", c)
  ELSE torch_check_fail("bernoulli_tensor_kernel")

\* bernoulli_kernel(self, p_, generator)
bernoulli_tensor_kernel(c) ==
  IF c.dtype \in AllTypes \cup {"Bool", "BFloat16", "Half"}
  THEN lock_guard("bernoulli_tensor_kernel", c)
       \o expand_inplace("bernoulli_tensor_kernel", c)
       \o (IF c.pdtype = "Double"
           THEN cpu_serial_kernel("bernoulli_tensor_kernel", c, "bernoulli_double")
           ELSE IF c.pdtype \in FloatingTypes \cup {"BFloat16", "Half"}
                THEN cpu_serial_kernel("bernoulli_tensor_kernel", c,
                                       "bernoulli_float")
                ELSE torch_check_fail("bernoulli_tensor_kernel"))
       \o end_scope("bernoulli_tensor_kernel", c)
  ELSE torch_check_fail("bernoulli_tensor_kernel")

\* mutant: the per-element function of the uniform fill, which ignores p
bernoulli_scalar_kernel_uniform(c) ==
  IF c.dtype \in AllTypes \cup {"Bool", "BFloat16", "Half"}
  THEN lock_guard("bernoulli_scalar_kernel", c)
       \o cpu_serial_kernel("bernoulli_scalar_kernel", c, "uniform_real")
       \o end_scope("bernoulli_scalar_kernel", c)
  ELSE torch_check_fail("bernoulli_scalar_kernel")

\* bernoulli_kernel(self, double p, generator)
bernoulli_scalar_kernel(c) ==
  IF c.dtype \in AllTypes \cup {"Bool", "BFloat16", "Half"}
  THEN lock_guard("bernoulli_scalar_kernel", c)
       \o cpu_serial_kernel("bernoulli_scalar_kernel", c, "bernoulli_scalar")
       \o end_scope("bernoulli_scalar_kernel", c)
  ELSE torch_check_fail("bernoulli_scalar_kernel")

\* ------------------------------------------------------- the entry points
\* check_generator<RNG>(gen): the generator, or an error if there is none
check_generator(c) ==
  IF c.genok
  THEN <<Ins("resolve", "check_generator", c.gen, 0, "")>>
  ELSE <<Ins("throw", "check_generator", DefaultGen, 0, "")>>

\* operator() of the functors: the argument check_generator<RNG>(gen) is
\* evaluated, then the kernel is called
RandomFromToKernel(c) ==
  check_generator(c)
  \o (IF c.kernel = "random_from_to_kernel"
      THEN random_from_to_kernel(c)
      ELSE random_full_64_bits_range_kernel(c))

RandomKernel(c) == check_generator(c) \o random_kernel(c)

\* mutant: the generator pointer is passed on without check_generator
NormalKernel_unchecked(c) == normal_kernel(c)

NormalKernel(c) == check_generator(c) \o normal_kernel(c)

UniformKernel(c) == check_generator(c) \o uniform_kernel(c)
CauchyKernel(c) == check_generator(c) \o cauchy_kernel(c)
LogNormalKernel(c) == check_generator(c) \o log_normal_kernel(c)
GeometricKernel(c) == check_generator(c) \o geometric_kernel(c)
ExponentialKernel(c) == check_generator(c) \o exponential_kernel(c)

BernoulliKernel(c) ==
  check_generator(c)
  \o (IF c.kernel = "bernoulli_scalar_kernel"
      THEN bernoulli_scalar_kernel(c)
      ELSE bernoulli_tensor_kernel(c))

Kernels ==
  {"random_from_to_kernel", "random_full_64_bits_range_kernel", "random_kernel",
   "normal_kernel", "uniform_kernel", "cauchy_kernel", "log_normal_kernel",
   "geometric_kernel", "exponential_kernel", "bernoulli_tensor_kernel",
   "bernoulli_scalar_kernel"}

\* the statements a call executes, in order
Plan(c) ==
  CASE c.kernel \in {"random_from_to_kernel", "random_full_64_bits_range_kernel"} ->
         RandomFromToKernel(c)
    [] c.kernel = "random_kernel" -> RandomKernel(c)
    [] c.kernel = "normal_kernel" -> NormalKernel(c)
    [] c.kernel = "uniform_kernel" -> UniformKernel(c)
    [] c.kernel = "cauchy_kernel" -> CauchyKernel(c)
    [] c.kernel = "log_normal_kernel" -> LogNormalKernel(c)
    [] c.kernel = "geometric_kernel" -> GeometricKernel(c)
    [] c.kernel = "exponential_kernel" -> ExponentialKernel(c)
    [] c.kernel \in {"bernoulli_tensor_kernel", "bernoulli_scalar_kernel"} ->
         BernoulliKernel(c)
    [] OTHER -> <<>>

\* ------------------------------------------------------------ the samplers
\* the probability aligned with output position idx after expand_inplace
Broadcast(c, idx) == IF Len(c.pvals) = 1 THEN c.pvals[1] ELSE c.pvals[idx + 1]

\* bernoulli_distribution: uniform(generator) < p, both in 1/ProbScale
Bernoulli(raw, p) == IF raw % ProbScale < p THEN 1 ELSE 0

\* what one invocation of the per-element function returns from draw `raw`
SampleValue(c, ins, raw) ==
  CASE ins.dist = "uniform_int_from_to" ->
         Elem(ins.dist, Narrow(c.dtype, c.base + (raw % c.range)), 0)
    [] ins.dist = "bernoulli_scalar" -> Elem(ins.dist, Bernoulli(raw, c.p), 0)
    [] ins.dist \in {"bernoulli_double", "bernoulli_float"} ->
         Elem(ins.dist, Bernoulli(raw, Broadcast(c, ins.idx)), 0)
    [] OTHER -> Elem(ins.dist, raw, 0)

\* radius * cos(theta) (tag "cos") or radius * sin(theta) (tag "sin"), times
\* std plus mean, of u1 = 1 - x and u2 = y
BoxMuller(tag, x, y) ==
  IF x[1] = "u" /\ y[1] = "u" THEN Elem(tag, x[2], y[2]) ELSE Elem("bad", 0, 0)

\* normal_fill_16(data + at, mean, std); data[k + 1] is the C++ data[k]
normal_fill_16(data, at) ==
  [i \in 1..Len(data) |->
     LET j == i - 1 - at
     IN  IF j \in 0..(HalfBlock - 1)
         THEN BoxMuller("cos", data[i], data[i + HalfBlock])
         ELSE IF j \in HalfBlock..(BlockSize - 1)
              THEN BoxMuller("sin", data[i - HalfBlock], data[i])
              ELSE data[i]]

\* mutant: the sin vector is stored first and the cos vector second
normal_fill_16_vectorize_sin_first(data, at, lanes) ==
  LET u1 == [l \in 1..lanes |-> data[at + l]]
      u2 == [l \in 1..lanes |-> data[at + lanes + l]]
      output_vec == [l \in 1..lanes |-> BoxMuller("cos", u1[l], u2[l])]
      output_vec2 == [l \in 1..lanes |-> BoxMuller("sin", u1[l], u2[l])]
  IN  [i \in 1..Len(data) |->
         IF i - at \in 1..lanes THEN output_vec2[i - at]
         ELSE IF i - at - lanes \in 1..lanes THEN output_vec[i - at - lanes]
              ELSE data[i]]

\* normal_fill_16_vectorize(data + at, ...) with Vec::size() = lanes
normal_fill_16_vectorize(data, at, lanes) ==
  LET u1 == [l \in 1..lanes |-> data[at + l]]
      u2 == [l \in 1..lanes |-> data[at + lanes + l]]
      output_vec == [l \in 1..lanes |-> BoxMuller("cos", u1[l], u2[l])]
      output_vec2 == [l \in 1..lanes |-> BoxMuller("sin", u1[l], u2[l])]
  IN  [i \in 1..Len(data) |->
         IF i - at \in 1..lanes THEN output_vec[i - at]
         ELSE IF i - at - lanes \in 1..lanes THEN output_vec2[i - at - lanes]
              ELSE data[i]]

\* the transform a "fill16" statement applies
Transform(c, ins, data) ==
  IF ins.dist = "normal_fill_16_vectorize"
  THEN normal_fill_16_vectorize(data, ins.idx, c.vecsize)
  ELSE normal_fill_16(data, ins.idx)

\* ------------------------------------------------------------ the inputs
Call(k, d, n) == [BaseCall EXCEPT !.kernel = k, !.dtype = d, !.numel = n]

SmallSizes == 0..MaxSmall
NormalSizes == SmallSizes \cup ((BlockSize - 1)..MaxNumel)
Bases == {-130, -1, 0, 126, 254, 256, 257}
Probs == 0..ProbScale
VecSizes == {4, 8, 16}
PDTypes == {"Double", "Float", "Half", "BFloat16", "Long"}
PVals(n) == [1..1 -> Probs] \cup [1..n -> Probs]

SimpleKernels ==
  {"random_full_64_bits_range_kernel", "random_kernel", "uniform_kernel",
   "cauchy_kernel", "log_normal_kernel", "geometric_kernel",
   "exponential_kernel"}

NormalCalls ==
  {[Call("normal_kernel", d, n) EXCEPT !.contiguous = cg, !.vecsize = v, !.bad = b] :
     d \in DTypes, n \in NormalSizes, cg \in BOOLEAN, v \in VecSizes, b \in {-1, 0}}

\* the calls of one caller
FullCalls ==
  {[Call(k, d, n) EXCEPT !.bad = b] :
     k \in SimpleKernels, d \in DTypes, n \in SmallSizes, b \in {-1, 0, 1}}
  \cup {[Call("random_from_to_kernel", d, n) EXCEPT !.range = r, !.base = b] :
          d \in DTypes, n \in SmallSizes, r \in 1..MaxRange, b \in Bases}
  \cup {[Call("bernoulli_scalar_kernel", d, n) EXCEPT !.p = p, !.bad = b] :
          d \in DTypes, n \in SmallSizes, p \in Probs, b \in {-1, 0}}
  \cup UNION {{[Call("bernoulli_tensor_kernel", d, n)
                  EXCEPT !.pdtype = pd, !.pvals = pv, !.bad = b] :
                 d \in DTypes, pd \in PDTypes, pv \in PVals(n), b \in {-1, 1}} :
              n \in SmallSizes}
  \cup {c \in NormalCalls :
          /\ c.vecsize = HalfBlock \/ c.dtype = "Float"
          /\ c.bad = -1 \/ c.numel <= MaxSmall}
  \cup {[Call(k, d, n) EXCEPT !.genok = FALSE] :
          k \in Kernels, d \in DTypes, n \in {MaxSmall, BlockSize}}

\* the calls of two concurrent callers: every kernel, on a type all kernels
\* accept, on one only some accept and on one none accepts
PairCalls ==
  {[Call(k, d, MaxSmall) EXCEPT !.bad = b, !.p = 1] :
     k \in Kernels \ {"normal_kernel"}, d \in {"Float", "Long", "ComplexFloat"},
     b \in {-1, 1}}
  \cup {[Call("bernoulli_tensor_kernel", "Long", MaxSmall) EXCEPT !.pdtype = "Long"]}
  \cup {Call("normal_kernel", "Float", BlockSize + 1),
        Call("normal_kernel", "Double", BlockSize),
        Call("normal_kernel", "Double", MaxSmall),
        Call("normal_kernel", "Int", MaxSmall)}

\* the calls run twice, on two generators in the same state
DetCalls ==
  PairCalls
  \cup {c \in NormalCalls :
          /\ c.numel \in {BlockSize, BlockSize + 1}
          /\ c.dtype \in {"Float", "Double", "Half"}
          /\ c.vecsize = HalfBlock \/ c.dtype = "Float"
          /\ c.bad = -1}

\* the calls of two callers that are scheduled fairly: every kind of step,
\* the sizes 0, 16 (one block), 17 (a block and a tail) and 33
LiveCalls ==
  {Call("normal_kernel", "Float", BlockSize + 1),
   Call("normal_kernel", "Half", MaxNumel),
   Call("normal_kernel", "Double", BlockSize),
   Call("normal_kernel", "Double", 0),
   Call("uniform_kernel", "Float", MaxSmall),
   [Call("uniform_kernel", "Float", MaxSmall) EXCEPT !.bad = 1],
   Call("random_kernel", "ComplexFloat", MaxSmall),
   Call("exponential_kernel", "Long", MaxSmall),
   [Call("bernoulli_tensor_kernel", "Long", MaxSmall) EXCEPT !.pdtype = "Half"],
   [Call("bernoulli_tensor_kernel", "Long", MaxSmall) EXCEPT !.pdtype = "Long"],
   [Call("cauchy_kernel", "Float", MaxSmall) EXCEPT !.genok = FALSE]}

WithGen(c, g) == [c EXCEPT !.gen = g]

\* ----------------------------------------------------------------- state
VARIABLES
  call,      \* call[t]: the fill call thread t makes
  todo,      \* todo[t]: the statements thread t's call has yet to execute
  status,    \* "idle", "running", "returned" or "failed" (an error was thrown)
  mutex,     \* mutex[g]: the thread that holds generator g's mutex_, or 0
  genState,  \* genState[g]: how many draws generator g has served
  out,       \* out[t]: the output array of thread t's call
  writes,    \* writes[t][i]: how often the call has stored to element i - 1
  hist,      \* hist[t]: what the call has done so far (see NoHist)
  gen0       \* gen0[g]: genState[g] before the calls

vars == <<call, todo, status, mutex, genState, out, writes, hist, gen0>>

\* acquires: lock_guards constructed; draws: generator draws made; unlocked:
\* draws made while not holding the generator's mutex; fills: 16-element
\* transforms applied; redone: uniform draws stored over a transformed
\* element; last: the element the latest draw was stored to; paths: the
\* functions whose statements have run; resolved: check_generator has
\* returned; expanded: "no", or whether the mutex was "held" or "free" when
\* the probabilities were broadcast; routines: the transform routines run;
\* oob: accesses to elements outside the output
NoHist ==
  [acquires |-> 0, draws |-> 0, unlocked |-> 0, fills |-> 0, redone |-> 0,
   last |-> -1, paths |-> {}, resolved |-> FALSE, expanded |-> "no",
   routines |-> {}, oob |-> 0]

InitCommon ==
  /\ todo = [t \in Threads |-> Plan(call[t])]
  /\ status = [t \in Threads |-> IF call[t].kernel = "idle" THEN "idle" ELSE "running"]
  /\ mutex = [g \in Gens |-> 0]
  /\ genState = gen0
  /\ out = [t \in Threads |-> [i \in 1..call[t].numel |-> InitElem]]
  /\ writes = [t \in Threads |-> [i \in 1..call[t].numel |-> 0]]
  /\ hist = [t \in Threads |-> NoHist]

\* two callers share the default generator
Init ==
  /\ \E c1 \in PairCalls, c2 \in PairCalls : call = <<c1, c2>>
  /\ \E s \in 0..MaxSeed : gen0 = [g \in Gens |-> s]
  /\ InitCommon

\* two callers share the default generator and run to completion
InitLive ==
  /\ \E c1 \in LiveCalls, c2 \in LiveCalls : call = <<c1, c2>>
  /\ gen0 = [g \in Gens |-> 0]
  /\ InitCommon

\* one caller
InitOne ==
  /\ \E c \in FullCalls : call = <<c, Idle>>
  /\ \E s \in 0..MaxSeed : gen0 = [g \in Gens |-> s]
  /\ InitCommon

\* the same call on two generators in the same state
InitDet ==
  /\ \E c \in DetCalls : call = <<WithGen(c, 1), WithGen(c, 2)>>
  /\ \E s \in 0..MaxSeed : gen0 = [g \in Gens |-> s]
  /\ InitCommon

\* ---------------------------------------------------------------- actions
cur(t) == Head(todo[t])
At(t, op) == status[t] = "running" /\ todo[t] # <<>> /\ cur(t).op = op

\* mutant: mutex_.lock() and unlock() by hand, so an error skips the unlock
unwind_leaks(t, m) == m

\* ~lock_guard during stack unwinding: every mutex the thread's guards hold
unwind(t, m) == [g \in Gens |-> IF m[g] = t THEN 0 ELSE m[g]]

\* a position outside an output of n elements
Outside(idx, n) == idx < 0 \/ idx >= n

\* check_generator returns the generator to the entry point
Resolve(t) ==
  /\ At(t, "resolve")
  /\ hist' = [hist EXCEPT ![t].resolved = TRUE]
  /\ todo' = [todo EXCEPT ![t] = Tail(@)]
  /\ UNCHANGED <<call, status, mutex, genState, out, writes, gen0>>

\* the probability tensor is moved to the CPU and broadcast to the output
Expand(t) ==
  /\ At(t, "expand")
  /\ hist' = [hist EXCEPT ![t].expanded =
                            IF mutex[cur(t).gen] = t THEN "held" ELSE "free",
                          ![t].paths = @ \cup {cur(t).fn}]
  /\ todo' = [todo EXCEPT ![t] = Tail(@)]
  /\ UNCHANGED <<call, status, mutex, genState, out, writes, gen0>>

\* std::lock_guard's constructor: blocks until the mutex is free
Lock(t) ==
  /\ At(t, "lock")
  /\ mutex[cur(t).gen] = 0
  /\ mutex' = [mutex EXCEPT ![cur(t).gen] = t]
  /\ todo' = [todo EXCEPT ![t] = Tail(@)]
  /\ hist' = [hist EXCEPT ![t].acquires = @ + 1, ![t].paths = @ \cup {cur(t).fn}]
  /\ UNCHANGED <<call, status, genState, out, writes, gen0>>

\* std::lock_guard's destructor at the end of its scope
Unlock(t) ==
  /\ At(t, "unlock")
  /\ mutex[cur(t).gen] = t
  /\ mutex' = [mutex EXCEPT ![cur(t).gen] = 0]
  /\ todo' = [todo EXCEPT ![t] = Tail(@)]
  /\ UNCHANGED <<call, status, genState, out, writes, hist, gen0>>

\* cpu_serial_kernel stores the per-element function's result to one element
Sample(t) ==
  /\ At(t, "sample")
  /\ LET ins == cur(t)
         raw == genState[ins.gen]
     IN  /\ genState' = [genState EXCEPT ![ins.gen] = raw + 1]
         /\ out' = [out EXCEPT ![t][ins.idx + 1] = SampleValue(call[t], ins, raw)]
         /\ writes' = [writes EXCEPT ![t][ins.idx + 1] = @ + 1]
         /\ hist' = [hist EXCEPT ![t].draws = @ + 1,
                                 ![t].unlocked = IF mutex[ins.gen] = t THEN @ ELSE @ + 1,
                                 ![t].last = ins.idx,
                                 ![t].paths = @ \cup {ins.fn},
                                 ![t].oob = IF Outside(ins.idx, call[t].numel)
                                            THEN @ + 1 ELSE @]
  /\ todo' = [todo EXCEPT ![t] = Tail(@)]
  /\ UNCHANGED <<call, status, mutex, gen0>>

\* data[i] = uniform(generator) of the block normal fills
Uniform(t) ==
  /\ At(t, "uniform")
  /\ LET ins == cur(t)
         raw == genState[ins.gen]
         old == out[t][ins.idx + 1]
     IN  /\ genState' = [genState EXCEPT ![ins.gen] = raw + 1]
         /\ out' = [out EXCEPT ![t][ins.idx + 1] = Elem("u", raw, 0)]
         /\ writes' = [writes EXCEPT ![t][ins.idx + 1] = @ + 1]
         /\ hist' = [hist EXCEPT ![t].draws = @ + 1,
                                 ![t].unlocked = IF mutex[ins.gen] = t THEN @ ELSE @ + 1,
                                 ![t].redone = IF old[1] \in {"cos", "sin", "bad"}
                                               THEN @ + 1 ELSE @,
                                 ![t].last = ins.idx,
                                 ![t].paths = @ \cup {ins.fn},
                                 ![t].oob = IF Outside(ins.idx, call[t].numel)
                                            THEN @ + 1 ELSE @]
  /\ todo' = [todo EXCEPT ![t] = Tail(@)]
  /\ UNCHANGED <<call, status, mutex, gen0>>

\* one 16-element Box-Muller transform in place
Fill16(t) ==
  /\ At(t, "fill16")
  /\ LET ins == cur(t)
     IN  /\ out' = [out EXCEPT ![t] = Transform(call[t], ins, @)]
         /\ writes' = [writes EXCEPT ![t] =
                         [i \in 1..Len(@) |->
                            IF i - 1 - ins.idx \in 0..(BlockSize - 1)
                            THEN @[i] + 1 ELSE @[i]]]
         /\ hist' = [hist EXCEPT ![t].fills = @ + 1,
                                 ![t].paths = @ \cup {ins.fn},
                                 ![t].routines = @ \cup {ins.dist},
                                 ![t].oob = IF \/ Outside(ins.idx, call[t].numel)
                                               \/ Outside(ins.idx + BlockSize - 1,
                                                          call[t].numel)
                                            THEN @ + 1 ELSE @]
  /\ todo' = [todo EXCEPT ![t] = Tail(@)]
  /\ UNCHANGED <<call, status, mutex, genState, gen0>>

\* an error leaves the call; unwinding destroys the lock_guards in scope
Throw(t) ==
  /\ At(t, "throw")
  /\ status' = [status EXCEPT ![t] = "failed"]
  /\ mutex' = unwind(t, mutex)
  /\ UNCHANGED <<call, todo, genState, out, writes, hist, gen0>>

\* the kernel returns to its caller
Return(t) ==
  /\ status[t] = "running"
  /\ todo[t] = <<>>
  /\ status' = [status EXCEPT ![t] = "returned"]
  /\ UNCHANGED <<call, todo, mutex, genState, out, writes, hist, gen0>>

Next ==
  \E t \in Threads :
    \/ Resolve(t)
    \/ Expand(t)
    \/ Lock(t)
    \/ Unlock(t)
    \/ Sample(t)
    \/ Uniform(t)
    \/ Fill16(t)
    \/ Throw(t)
    \/ Return(t)

\* one step of thread t's call
Step(t) ==
  \/ Resolve(t)
  \/ Expand(t)
  \/ Lock(t)
  \/ Unlock(t)
  \/ Sample(t)
  \/ Uniform(t)
  \/ Fill16(t)
  \/ Throw(t)
  \/ Return(t)

Spec == Init /\ [][Next]_vars
SpecOne == InitOne /\ [][Next]_vars
SpecDet == InitDet /\ [][Next]_vars
\* two callers of one generator, each thread scheduled as long as it can run
SpecLive == InitLive /\ [][Next]_vars /\ \A t \in Threads : WF_vars(Step(t))

\* ---------------------------------------------------------- the serial run
\* A call run alone, statement by statement, from generator states g.
RECURSIVE Exec(_, _, _)
Exec(c, stmts, s) ==
  IF stmts = <<>> THEN [s EXCEPT !.status = "returned"]
  ELSE LET ins == Head(stmts)
       IN  CASE ins.op = "throw" -> [s EXCEPT !.status = "failed"]
             [] ins.op = "sample" ->
                  Exec(c, Tail(stmts),
                       [s EXCEPT !.gen[ins.gen] = @ + 1,
                                 !.out[ins.idx + 1] = SampleValue(c, ins, s.gen[ins.gen])])
             [] ins.op = "uniform" ->
                  Exec(c, Tail(stmts),
                       [s EXCEPT !.gen[ins.gen] = @ + 1,
                                 !.out[ins.idx + 1] = Elem("u", s.gen[ins.gen], 0)])
             [] ins.op = "fill16" ->
                  Exec(c, Tail(stmts), [s EXCEPT !.out = Transform(c, ins, @)])
             [] OTHER -> Exec(c, Tail(stmts), s)

Serial(c, g) ==
  Exec(c, Plan(c),
       [gen |-> g, out |-> [i \in 1..c.numel |-> InitElem], status |-> "running"])

Done(t) == status[t] \in {"returned", "failed"}
DrawOps == {"sample", "uniform"}
BlockPaths == {"normal_fill", "normal_fill_vectorize"}
OnBlockPath(t) == hist[t].paths \cap BlockPaths # {}
Untouched(t) ==
  /\ hist[t].acquires = 0
  /\ hist[t].draws = 0
  /\ \A i \in 1..call[t].numel : writes[t][i] = 0 /\ out[t][i] = InitElem

\* the results of thread `first`'s call and then the other's, run one after
\* the other from the generators' states before the calls
InOrder(first, second) ==
  LET a == Serial(call[first], gen0)
      b == Serial(call[second], a.gen)
  IN  /\ out[first] = a.out /\ status[first] = a.status
      /\ out[second] = b.out /\ status[second] = b.status
      /\ genState = b.gen

\* ------------------------------------------------------------------ claims

\* C1: every generator draw of a fill call is made while the call holds the
\* generator's mutex, and one hold covers them all: a call that has drawn has
\* constructed exactly one lock_guard, and holds the mutex as long as it has
\* draws left to make.
C1_DrawsUnderOneHold ==
  \A t \in Threads :
    /\ hist[t].unlocked = 0
    /\ hist[t].draws > 0 => hist[t].acquires = 1
    /\ (/\ status[t] = "running"
        /\ hist[t].draws > 0
        /\ \E k \in 1..Len(todo[t]) : todo[t][k].op \in DrawOps)
       => mutex[call[t].gen] = t

\* a vectorized normal fill is redrawing its tail under the lock while the
\* other caller waits at its lock_guard
C1_Witness ==
  \E t, w \in Threads :
    /\ t # w
    /\ "normal_fill_vectorize" \in hist[t].paths
    /\ hist[t].draws > call[t].numel
    /\ hist[t].fills > 0
    /\ At(t, "uniform")
    /\ mutex[call[t].gen] = t
    /\ At(w, "lock") /\ cur(w).gen = call[t].gen

\* C2: when both callers of one generator are done, the two outputs, the two
\* outcomes and the generator's state are those of the two calls run one
\* after the other in one of the two orders.
C2_Serializable ==
  (\A t \in Threads : Done(t)) => InOrder(1, 2) \/ InOrder(2, 1)

\* both calls drew, the second caller went first, and the orders differ
C2_Witness ==
  /\ \A t \in Threads : status[t] = "returned" /\ hist[t].draws >= MaxSmall
  /\ InOrder(2, 1)
  /\ ~InOrder(1, 2)

\* C3: a call that has returned or thrown holds no generator mutex.
C3_ReleasedOnEveryExit ==
  \A t \in Threads : Done(t) => \A g \in Gens : mutex[g] # t

\* a call threw under the lock after one draw, and the other caller then
\* acquired the mutex and drew the next value of the stream
C3_Witness ==
  \E t, w \in Threads :
    /\ t # w
    /\ status[t] = "failed" /\ hist[t].acquires = 1 /\ hist[t].draws = 1
    /\ out[t][1][2] = gen0[call[t].gen]
    /\ status[w] = "returned" /\ hist[w].acquires = 1 /\ hist[w].draws >= 1
    /\ out[w][1][2] = gen0[call[t].gen] + 1

\* C4: exponential_kernel on an output that is not floating point never
\* constructs the lock_guard, draws nothing, writes nothing, leaves the
\* generator as it was and does not return normally: once the entry point
\* has resolved the generator, its next step is the failing check.
C4_ExponentialRejectsNonFloating ==
  \A t \in Threads :
    (call[t].kernel = "exponential_kernel" /\ ~isFloatingType(call[t].dtype))
    => /\ Untouched(t)
       /\ genState = gen0
       /\ status[t] = "failed" \/ At(t, "throw") \/ At(t, "resolve")

\* an integer output of several elements was rejected
C4_Witness ==
  \E t \in Threads :
    /\ call[t].kernel = "exponential_kernel"
    /\ call[t].dtype = "Long"
    /\ call[t].numel = MaxSmall
    /\ hist[t].resolved
    /\ status[t] = "failed"

\* C5 as stated: every element of the output of a call that returned was
\* written exactly once.
C5_WrittenExactlyOnce ==
  \A t \in Threads :
    status[t] = "returned" => \A i \in 1..call[t].numel : writes[t][i] = 1

\* how often a block normal fill of n elements stores to element i (from 0):
\* the uniform pass and the element's block transform, and for the last 16
\* elements of a size that is no multiple of 16 the tail's redraw and transform
BlockWrites(n, i) ==
  LET full == BlockSize * (n \div BlockSize)
  IN  (IF i < full THEN 2 ELSE 1)
      + (IF n % BlockSize # 0 /\ i >= n - BlockSize THEN 2 ELSE 0)

\* C5 amended: a call that returned normally has written every element
\* exactly once, unless it is a block normal fill, which has written every
\* element BlockWrites times (2, 3 or 4).
C5_WrittenOnceOrByBlocks ==
  \A t \in Threads :
    status[t] = "returned"
    => \A i \in 1..call[t].numel :
         writes[t][i] = IF OnBlockPath(t) THEN BlockWrites(call[t].numel, i - 1) ELSE 1

\* a block fill returned with an element stored four times, another three
\* times and another twice
C5_Witness ==
  \E t \in Threads :
    /\ status[t] = "returned"
    /\ OnBlockPath(t)
    /\ {2, 3, 4} \subseteq {writes[t][i] : i \in 1..call[t].numel}

\* C6: in a block normal fill of n elements, r = n mod 16: draws beyond the
\* first n are made only if r # 0, only after all n div 16 full blocks are
\* transformed, go to n-16, n-16+1, ... in order and number at most 16; a
\* transform beyond the full blocks runs only after all 16 of them.  At the
\* return: n + 16 draws, one more transform, 16 - r transformed elements
\* redrawn and the last 16 elements the transform of the 16 last draws if
\* r # 0; n draws, n div 16 transforms and nothing redrawn if r = 0.
C6_TailRecompute ==
  \A t \in Threads :
    OnBlockPath(t)
    => LET n == call[t].numel
           r == n % BlockSize
           q == n \div BlockSize
           d == hist[t].draws
           f == hist[t].fills
           g0 == gen0[call[t].gen]
       IN  /\ d > n => /\ r # 0
                       /\ f >= q
                       /\ d <= n + BlockSize
                       /\ f = q => hist[t].last = n - BlockSize + (d - n - 1)
           /\ f > q => r # 0 /\ d = n + BlockSize /\ f = q + 1
           /\ status[t] = "returned"
              => IF r # 0
                 THEN /\ d = n + BlockSize
                      /\ f = q + 1
                      /\ hist[t].redone = BlockSize - r
                      /\ \A j \in 0..(HalfBlock - 1) :
                           /\ out[t][n - BlockSize + j + 1]
                                = Elem("cos", g0 + n + j, g0 + n + j + HalfBlock)
                           /\ out[t][n - BlockSize + j + HalfBlock + 1]
                                = Elem("sin", g0 + n + j, g0 + n + j + HalfBlock)
                 ELSE d = n /\ f = q /\ hist[t].redone = 0

\* a fill of two full blocks and one more element returned: 15 elements redone
C6_Witness ==
  \E t \in Threads :
    /\ OnBlockPath(t)
    /\ status[t] = "returned"
    /\ call[t].numel = 2 * BlockSize + 1
    /\ hist[t].draws = call[t].numel + BlockSize
    /\ hist[t].redone = BlockSize - 1

\* C7: the same call made on two generators in the same state: whenever the
\* two calls have the same statements left to execute, and so when both are
\* done, their outputs are equal element for element and the two generators
\* are in equal states; and when both are done their outcomes are equal.
C7_Deterministic ==
  /\ (\A t \in Threads : Done(t)) => status[1] = status[2]
  /\ (status[1] = status[2] /\ Len(todo[1]) = Len(todo[2]))
     => /\ out[1] = out[2]
        /\ genState[call[1].gen] = genState[call[2].gen]

\* two vectorized fills with a tail returned, each having drawn from its own
\* generator
C7_Witness ==
  /\ \A t \in Threads :
       /\ status[t] = "returned"
       /\ "normal_fill_vectorize" \in hist[t].paths
       /\ hist[t].draws = call[t].numel + BlockSize
  /\ call[1].gen # call[2].gen
  /\ genState[1] = gen0[1] + hist[1].draws
  /\ genState[2] = gen0[2] + hist[2].draws

\* C8: random_full_64_bits_range_kernel on an output that is not Long,
\* Double, Float or BFloat16 never constructs the lock_guard, draws nothing,
\* writes nothing and does not return normally; on those four types, once
\* entered, it fails only if the per-element function does.
C8_FullRangeTypes ==
  \A t \in Threads :
    call[t].kernel = "random_full_64_bits_range_kernel"
    => IF call[t].dtype \in {"Long", "Double", "Float", "BFloat16"}
       THEN (status[t] = "failed" /\ hist[t].resolved)
            => call[t].bad \in 0..(call[t].numel - 1)
       ELSE /\ Untouched(t)
            /\ genState = gen0
            /\ status[t] = "failed" \/ At(t, "throw") \/ At(t, "resolve")

\* a 32-bit integer output, which the dispatch accepts and the kernel rejects
C8_Witness ==
  \E t \in Threads :
    /\ call[t].kernel = "random_full_64_bits_range_kernel"
    /\ call[t].dtype = "Int"
    /\ call[t].numel = MaxSmall
    /\ hist[t].resolved
    /\ status[t] = "failed"

InRange(c, v) == c.base <= v /\ v < c.base + c.range

\* C9 as stated: with range >= 1 and base + range - 1 representable in the
\* output type, every element written lies in [base, base + range).
C9_BoundsGivenTopRepresentable ==
  \A t \in Threads :
    (/\ call[t].kernel = "random_from_to_kernel"
     /\ call[t].range >= 1
     /\ Representable(call[t].dtype, call[t].base + call[t].range - 1))
    => \A i \in 1..call[t].numel :
         writes[t][i] > 0 => InRange(call[t], out[t][i][2])

\* C9 amended: with range >= 1 and both base and base + range - 1
\* representable in the output type, every element written lies in
\* [base, base + range), and equals base if range = 1.
C9_BoundsGivenBothRepresentable ==
  \A t \in Threads :
    (/\ call[t].kernel = "random_from_to_kernel"
     /\ call[t].range >= 1
     /\ Representable(call[t].dtype, call[t].base)
     /\ Representable(call[t].dtype, call[t].base + call[t].range - 1))
    => \A i \in 1..call[t].numel :
         writes[t][i] > 0
         => /\ InRange(call[t], out[t][i][2])
            /\ call[t].range = 1 => out[t][i][2] = call[t].base

\* an 8-bit output filled from [126, 128): both values occur
C9_Witness ==
  \E t \in Threads :
    /\ call[t].kernel = "random_from_to_kernel"
    /\ call[t].dtype = "Char" /\ call[t].base = 126 /\ call[t].range = 2
    /\ status[t] = "returned"
    /\ {out[t][i][2] : i \in 1..call[t].numel} = {126, 127}

\* the path normal_kernel is to take for a floating output
NormalPath(c) ==
  IF c.contiguous /\ c.numel >= BlockSize
  THEN IF c.dtype = "Float" THEN "normal_fill_vectorize" ELSE "normal_fill"
  ELSE "normal_kernel"

\* C10: for a floating output, the statements a normal_kernel call runs are
\* those of one path: normal_fill_vectorize if the output is Float,
\* contiguous and of at least 16 elements, normal_fill if it is contiguous,
\* of at least 16 elements and of another floating type, the per-element
\* loop of normal_kernel otherwise; and a call that got its generator runs
\* that path.
C10_NormalPath ==
  \A t \in Threads :
    (call[t].kernel = "normal_kernel" /\ isFloatingType(call[t].dtype))
    => /\ hist[t].paths \subseteq {NormalPath(call[t])}
       /\ (Done(t) /\ hist[t].resolved) => hist[t].paths = {NormalPath(call[t])}

\* a Float output of 16 elements that is not contiguous was filled per element
C10_Witness ==
  \E t \in Threads :
    /\ call[t].kernel = "normal_kernel"
    /\ call[t].dtype = "Float" /\ call[t].numel = BlockSize /\ ~call[t].contiguous
    /\ status[t] = "returned"
    /\ hist[t].paths = {"normal_kernel"}
    /\ hist[t].draws = BlockSize

\* C11: in every entry point check_generator has returned before the call
\* attempts to construct a lock_guard, draws or writes; a call whose
\* generator argument does not resolve never reaches a lock_guard, draws
\* nothing, writes nothing, leaves the generators as they were and ends with
\* the error check_generator raises.
C11_ResolvedBeforeLock ==
  \A t \in Threads :
    /\ (\/ At(t, "lock")
        \/ hist[t].acquires > 0
        \/ hist[t].draws > 0
        \/ hist[t].expanded # "no"
        \/ \E i \in 1..call[t].numel : writes[t][i] > 0)
       => hist[t].resolved
    /\ (status[t] # "idle" /\ ~call[t].genok)
       => /\ Untouched(t)
          /\ ~hist[t].resolved
          /\ genState = gen0
          /\ \A g \in Gens : mutex[g] = 0
          /\ status[t] = "failed" \/ (At(t, "throw") /\ cur(t).fn = "check_generator")

\* a Float normal fill of 16 elements without a generator failed
C11_Witness ==
  \E t \in Threads :
    /\ call[t].kernel = "normal_kernel"
    /\ call[t].dtype = "Float" /\ call[t].numel = BlockSize
    /\ ~call[t].genok
    /\ status[t] = "failed"

\* C12: a Bernoulli fill with a scalar probability that returned has made
\* one draw per element and written each element once, from consecutive
\* draws in element order; every element it has written is 0 or 1, is 0 if
\* p = 0 and is 1 if p = 1.
C12_BernoulliScalar ==
  \A t \in Threads :
    call[t].kernel = "bernoulli_scalar_kernel"
    => /\ \A i \in 1..call[t].numel :
            writes[t][i] > 0
            => /\ out[t][i][1] = "bernoulli_scalar"
               /\ out[t][i][2] \in {0, 1}
               /\ call[t].p = 0 => out[t][i][2] = 0
               /\ call[t].p = ProbScale => out[t][i][2] = 1
               /\ out[t][i][2]
                    = Bernoulli(gen0[call[t].gen] + i - 1, call[t].p)
       /\ status[t] = "returned"
          => /\ hist[t].draws = call[t].numel
             /\ genState[call[t].gen] = gen0[call[t].gen] + call[t].numel
             /\ \A i \in 1..call[t].numel : writes[t][i] = 1

\* a fill with p = 1 of several elements returned all ones from a generator
\* that had served draws before
C12_Witness ==
  \E t \in Threads :
    /\ call[t].kernel = "bernoulli_scalar_kernel"
    /\ call[t].p = ProbScale /\ call[t].numel = MaxSmall
    /\ gen0[call[t].gen] = MaxSeed
    /\ status[t] = "returned"
    /\ \A i \in 1..call[t].numel : out[t][i] = Elem("bernoulli_scalar", 1, 0)

\* C13 as stated: the vectorized block fill has drawn all n uniforms before
\* its first transform, and the scalar block fill has not: when its n-th
\* draw is made a transform has already been applied.
C13_OnlyVectorizedDrawsUpFront ==
  \A t \in Threads :
    LET n == call[t].numel
    IN  /\ ("normal_fill_vectorize" \in hist[t].paths /\ hist[t].fills > 0)
           => hist[t].draws >= n
        /\ ("normal_fill" \in hist[t].paths /\ hist[t].draws >= n)
           => hist[t].fills > 0

\* C13 amended: normal_fill and normal_fill_vectorize consume the draws in
\* the same order and number: in both, the first n draws go to elements
\* 0, 1, ..., n - 1 in order, no transform is applied before all n are made,
\* every draw is the generator's next value, and at the return n draws have
\* been made if n is a multiple of 16 and n + 16 otherwise.
C13_BothDrawUpFront ==
  \A t \in Threads :
    OnBlockPath(t)
    => LET n == call[t].numel
           d == hist[t].draws
       IN  /\ (0 < d /\ d <= n) => hist[t].last = d - 1
           /\ d < n => hist[t].fills = 0
           /\ genState[call[t].gen] = gen0[call[t].gen] + d
           /\ status[t] = "returned"
              => d = n + (IF n % BlockSize # 0 THEN BlockSize ELSE 0)

\* a scalar block fill of 17 elements has made all 17 draws and is about
\* to apply its first transform
C13_Witness ==
  \E t \in Threads :
    /\ "normal_fill" \in hist[t].paths
    /\ call[t].numel = BlockSize + 1
    /\ hist[t].draws = call[t].numel
    /\ hist[t].fills = 0
    /\ At(t, "fill16")

\* what element i (from 0) of a block normal fill of n elements holds at the
\* return, the generator having served g0 draws before: with j its position
\* in its 16-block (the tail block for the last 16 elements of a size that
\* is no multiple of 16) and u the block's 16 uniforms, the cos transform of
\* u[j] and u[j + 8] if j < 8, the sin transform of u[j - 8] and u[j] if not
BlockResult(n, g0, i) ==
  LET inTail == n % BlockSize # 0 /\ i >= n - BlockSize
      start == IF inTail THEN n - BlockSize ELSE BlockSize * (i \div BlockSize)
      u0 == IF inTail THEN g0 + n ELSE g0 + start
      j == i - start
  IN  IF j < HalfBlock
      THEN Elem("cos", u0 + j, u0 + j + HalfBlock)
      ELSE Elem("sin", u0 + j - HalfBlock, u0 + j)

\* C14: the vectorized normal fill transforms its blocks, the tail block
\* included, with one routine: normal_fill_16_vectorize if the vector type
\* has 8 lanes, normal_fill_16 if not; each block is transformed once; and
\* for every lane count the result is that of the scalar routine: position
\* j < 8 of a block holds the cos transform of uniforms j and j + 8, position
\* j + 8 the sin transform of the same two.
C14_OneRoutinePerBlock ==
  \A t \in Threads :
    "normal_fill_vectorize" \in hist[t].paths
    => LET n == call[t].numel
       IN  /\ hist[t].routines
                \subseteq {IF call[t].vecsize = HalfBlock
                           THEN "normal_fill_16_vectorize" ELSE "normal_fill_16"}
           /\ status[t] = "returned"
              => /\ hist[t].fills
                      = (n \div BlockSize) + (IF n % BlockSize # 0 THEN 1 ELSE 0)
                 /\ Cardinality(hist[t].routines) = 1
                 /\ \A i \in 1..n :
                      out[t][i] = BlockResult(n, gen0[call[t].gen], i - 1)
                 /\ out[t] = Serial([call[t] EXCEPT !.dtype = "Double"], gen0).out

\* a vectorized fill of two blocks and a tail returned on a build with 8
\* lanes, transformed by normal_fill_16_vectorize alone
C14_Witness ==
  \E t \in Threads :
    /\ "normal_fill_vectorize" \in hist[t].paths
    /\ call[t].vecsize = HalfBlock
    /\ call[t].numel = 2 * BlockSize + 1
    /\ status[t] = "returned"
    /\ hist[t].routines = {"normal_fill_16_vectorize"}
    /\ hist[t].fills = 3

\* C15: in a Bernoulli fill from a probability tensor, element i is written
\* at most once, from the i-th draw of the call and the probability that the
\* broadcast aligns with i (the only one of a one-element tensor, the i-th
\* otherwise), on the double path if the probabilities are Double and on the
\* single-precision path if they are of another floating type; the
\* broadcast and every draw are made while the call holds the mutex, which
\* it acquires once; a call that returned has written every element once.
C15_BernoulliTensor ==
  \A t \in Threads :
    call[t].kernel = "bernoulli_tensor_kernel"
    => LET c == call[t]
           path == IF c.pdtype = "Double" THEN "bernoulli_double"
                   ELSE "bernoulli_float"
           prob(i) == IF Len(c.pvals) = 1 THEN c.pvals[1] ELSE c.pvals[i]
       IN  /\ \A i \in 1..c.numel :
                /\ writes[t][i] <= 1
                /\ writes[t][i] = 1
                   => out[t][i]
                        = Elem(path, Bernoulli(gen0[c.gen] + i - 1, prob(i)), 0)
           /\ hist[t].expanded # "free"
           /\ hist[t].unlocked = 0
           /\ hist[t].acquires <= 1
           /\ hist[t].draws > 0 => hist[t].expanded = "held"
           /\ (hist[t].expanded = "held" /\ status[t] = "running"
               /\ \E k \in 1..Len(todo[t]) : todo[t][k].op \in DrawOps)
              => mutex[c.gen] = t
           /\ status[t] = "returned"
              => /\ isFloatingType(c.pdtype)
                 /\ hist[t].acquires = 1 /\ hist[t].expanded = "held"
                 /\ hist[t].draws = c.numel
                 /\ \A i \in 1..c.numel : writes[t][i] = 1

\* a fill from Half probabilities 0 and 1 returned 0 and 1 on the
\* single-precision path
C15_Witness ==
  \E t \in Threads :
    /\ call[t].kernel = "bernoulli_tensor_kernel"
    /\ call[t].pdtype = "Half"
    /\ call[t].numel = 2 /\ call[t].pvals = <<0, ProbScale>>
    /\ status[t] = "returned"
    /\ out[t] = <<Elem("bernoulli_float", 0, 0), Elem("bernoulli_float", 1, 0)>>

\* a caller waiting at its lock_guard for a mutex that is held
Blocked(t) == At(t, "lock") /\ mutex[cur(t).gen] # 0

\* C16: with both callers scheduled fairly, every running call ends (it
\* returns or throws), every call that holds the mutex ends with the mutex
\* released, a caller blocked at its lock_guard gets past it, and the two
\* callers are never both blocked.
C16_Terminates ==
  /\ \A t \in Threads : (status[t] = "running") ~> Done(t)
  /\ \A t \in Threads : \A g \in Gens :
       (mutex[g] = t) ~> (Done(t) /\ mutex[g] # t)
  /\ \A t \in Threads : Blocked(t) ~> (hist[t].acquires = 1)
  /\ [](~(\A t \in Threads : Blocked(t)))

\* a vectorized fill of 17 elements made its 33 draws and returned, and the
\* other caller then acquired the mutex, drew the next values and returned
C16_Witness ==
  \E t, w \in Threads :
    /\ t # w
    /\ status[t] = "returned" /\ status[w] = "returned"
    /\ "normal_fill_vectorize" \in hist[t].paths
    /\ hist[t].draws = call[t].numel + BlockSize
    /\ hist[w].acquires = 1
    /\ call[w].kernel = "uniform_kernel"
    /\ out[w][1] = Elem("uniform_real", gen0[call[t].gen] + hist[t].draws, 0)
    /\ \A g \in Gens : mutex[g] = 0

\* C17: normal_kernel enters a block fill only with n >= 16, and every
\* access a block fill makes or has yet to make is inside the output: a
\* uniform store goes to an element of [0, n), a 16-element transform
\* starts at i >= 0 with i + 15 < n, a full-block one at a multiple of 16
\* and the tail's at n - 16.
C17_IndexSafety ==
  \A t \in Threads :
    LET n == call[t].numel
    IN  /\ hist[t].oob = 0
        /\ OnBlockPath(t) => n >= BlockSize
        /\ \A k \in 1..Len(todo[t]) :
             LET ins == todo[t][k]
             IN  ins.fn \in BlockPaths
                 => /\ n >= BlockSize
                    /\ ins.op = "uniform" => (0 <= ins.idx /\ ins.idx < n)
                    /\ ins.op = "fill16"
                       => /\ 0 <= ins.idx /\ ins.idx + (BlockSize - 1) < n
                          /\ ins.idx % BlockSize = 0 \/ ins.idx = n - BlockSize

\* a block fill of 17 elements returned: its tail was redrawn and
\* transformed at elements 1 to 16
C17_Witness ==
  \E t \in Threads :
    /\ OnBlockPath(t)
    /\ call[t].numel = BlockSize + 1
    /\ status[t] = "returned"
    /\ hist[t].fills = 2
    /\ hist[t].last = BlockSize
    /\ writes[t][1] = 2 /\ writes[t][2] = 4

\* C18: in a block fill, a transform is only ever applied to 16 uniforms
\* drawn since the last transform of those elements, and when the fill
\* returns every element holds the cos or sin transform of two uniforms
\* that this call drew 8 draws apart: none holds a raw uniform, its value
\* from before the call or the transform of a transformed value.
C18_TransformedOnce ==
  \A t \in Threads :
    OnBlockPath(t)
    => LET n == call[t].numel
           g0 == gen0[call[t].gen]
       IN  /\ \A i \in 1..n : out[t][i][1] # "bad"
           /\ At(t, "fill16")
              => \A j \in 1..BlockSize : out[t][cur(t).idx + j][1] = "u"
           /\ status[t] = "returned"
              => \A i \in 1..n :
                   /\ out[t][i][1] \in {"cos", "sin"}
                   /\ g0 <= out[t][i][2]
                   /\ out[t][i][3] = out[t][i][2] + HalfBlock
                   /\ out[t][i][3] < g0 + hist[t].draws

\* a scalar block fill of 33 elements returned, its last 16 elements
\* transformed from the 16 draws of the tail
C18_Witness ==
  \E t \in Threads :
    /\ "normal_fill" \in hist[t].paths
    /\ call[t].numel = 2 * BlockSize + 1
    /\ status[t] = "returned"
    /\ hist[t].redone = BlockSize - 1
    /\ out[t][call[t].numel]
         = Elem("sin", gen0[call[t].gen] + call[t].numel + HalfBlock - 1,
                gen0[call[t].gen] + call[t].numel + BlockSize - 1)

\* the lock_guard constructions a call has yet to execute
LocksAhead(t) == Cardinality({k \in 1..Len(todo[t]) : todo[t][k].op = "lock"})

\* C19: on every path of every kernel the lock_guards constructed and those
\* still to be constructed number at most one, and no call is at a
\* lock_guard on a mutex it holds; a normal_kernel call on a floating output
\* that returned has constructed exactly one, on each of its three branches,
\* and so has every other call that made a draw.
C19_LockedAtMostOnce ==
  \A t \in Threads :
    /\ hist[t].acquires + LocksAhead(t) <= 1
    /\ ~(At(t, "lock") /\ mutex[cur(t).gen] = t)
    /\ \A g \in Gens : mutex[g] = t => (g = call[t].gen /\ hist[t].acquires = 1)
    /\ hist[t].draws > 0 => hist[t].acquires = 1
    /\ (/\ call[t].kernel = "normal_kernel"
        /\ isFloatingType(call[t].dtype)
        /\ status[t] = "returned")
       => hist[t].acquires = 1

\* a normal_kernel call returned from its normal_fill branch with one
\* lock_guard constructed
C19_Witness ==
  \E t \in Threads :
    /\ call[t].kernel = "normal_kernel"
    /\ call[t].dtype = "Half" /\ call[t].numel = BlockSize + 1 /\ call[t].contiguous
    /\ status[t] = "returned"
    /\ hist[t].paths = {"normal_fill"}
    /\ hist[t].acquires = 1
    /\ LocksAhead(t) = 0

====
